---- MODULE Spec2Model ----
(***************************************************************************)
(* ClaimEvaluator: the encrypted claim ledger and its homomorphic payout   *)
(* pipeline (contract ClaimEvaluator, src/unnamed/part_000 lines 20-228).  *)
(*                                                                         *)
(* An euint32 is modelled as a handle record [id, val]: id is the handle's *)
(* identity (its provenance: the operation and the operand handles that    *)
(* produced it), val is the plaintext the backend holds for it, a 32-bit   *)
(* unsigned word.  A word is a little-endian tuple of four base-256        *)
(* digits, so that the whole unsigned 32-bit domain and the wrap-around of *)
(* add/sub/mul modulo 2^32 are computed exactly.                           *)
(***************************************************************************)
EXTENDS Integers, Sequences, FiniteSets, TLC

VARIABLES claimCounter, claims, acl, pc, frame, emitted, result

vars == <<claimCounter, claims, acl, pc, frame, emitted, result>>

----------------------------------------------------------------------------
(* Unsigned 32-bit words                                                   *)

Radix == 256

WordDigits == 4

\* The word of a natural number below 2^31.
U32(n) ==
  << n % Radix, (n \div Radix) % Radix, (n \div (Radix * Radix)) % Radix,
     (n \div (Radix * Radix * Radix)) % Radix >>

\* 2^32 - 1, the largest value of the domain.
U32Max == << Radix - 1, Radix - 1, Radix - 1, Radix - 1 >>

\* Digit i (from 0, least significant first) of a digit sequence.
Digit(a, i) == IF i < Len(a) THEN a[i + 1] ELSE 0

RECURSIVE SubBorrow(_, _, _, _)
SubBorrow(a, b, k, borrow) ==
  IF k = WordDigits THEN << >>
  ELSE LET t == Digit(a, k) - Digit(b, k) - borrow
       IN  IF t < 0 THEN << t + Radix >> \o SubBorrow(a, b, k + 1, 1)
                    ELSE << t >> \o SubBorrow(a, b, k + 1, 0)

\* a - b modulo 2^32.
WrapSub(a, b) == SubBorrow(a, b, 0, 0)

RECURSIVE Column(_, _, _, _)
Column(a, b, k, i) ==
  IF i > k THEN 0 ELSE Digit(a, i) * Digit(b, k - i) + Column(a, b, k, i + 1)

RECURSIVE MulCarry(_, _, _, _, _)
MulCarry(a, b, k, n, carry) ==
  IF k = n THEN << >>
  ELSE LET t == Column(a, b, k, 0) + carry
       IN  << t % Radix >> \o MulCarry(a, b, k + 1, n, t \div Radix)

\* a * b modulo 2^32: the low four digits of the product.
WrapMul(a, b) == MulCarry(a, b, 0, WordDigits, 0)

RECURSIVE DivRem(_, _, _, _)
DivRem(a, k, d, r) ==
  IF k = 0 THEN << >>
  ELSE LET cur == r * Radix + a[k]
       IN  DivRem(a, k - 1, d, cur % d) \o << cur \div d >>

\* floor(a / d) for a digit sequence a and a plain divisor d.
DivPlain(a, d) == DivRem(a, Len(a), d, 0)

----------------------------------------------------------------------------
(* Bounds and input domains                                                *)

\* Largest number of claims submitted in the ledger specification.
MaxClaims == 2

\* Largest number of claims submitted in the payout specification.
WideMaxClaims == 1

\* address(this), the contract itself as a principal of the access list.
This == "ClaimEvaluator"

Users == { "alice", "bob" }

WideUsers == { "alice" }

\* Plaintexts the submitters encrypt in the ledger specification.
LossAmounts == { U32(500), U32(1000000000) }

RiskLevels == { U32(2) }

\* Plaintexts of the payout specification: both ends of the 32-bit domain,
\* the scenarios' amounts, and the amounts on each side of the point where
\* lossAmount * payoutPercent first passes 2^32 for 10000, 7500 and 5000.
WideLossAmounts ==
  { U32(0), U32(1), U32(3), U32(500), U32(429496), U32(429497), U32(572662),
    U32(572663), U32(858993), U32(858994), U32(1000000000), U32Max }

WideRiskLevels == { U32(0), U32(1), U32(2), U32(3), U32(4), U32Max }

\* The claim ids a caller passes: every id that can be allocated and one more.
ClaimIds == 0 .. MaxClaims

----------------------------------------------------------------------------
(* The confidential-compute backend (library FHE)                          *)

\* euint32.wrap(0): the handle every field of an unwritten mapping slot holds.
NilHandle == [id |-> << "nil" >>, val |-> U32(0)]

\* An externalEuint32 made by `user`: the index-th value of the input bundle.
External(user, index, val) == [user |-> user, index |-> index, val |-> val]

\* A verification that looks at the first value of the bundle only.
VerifiesFirstOnly(ext, inputProof) == ext.index = 0 => ext \in inputProof

\* FHE.fromExternal: the proof verifies for the ciphertexts it attests.
Verifies(ext, inputProof) == ext \in inputProof

fromExternal(ext) ==
  [id |-> << "input", ext.user, ext.index, ext.val >>, val |-> ext.val]

\* FHE.asEuint32: the trivial encryption of a plain value.
asEuint32(n) == [id |-> << "trivial", n >>, val |-> U32(n)]

FHEsub(a, b) == [id |-> << "sub", a.id, b.id >>, val |-> WrapSub(a.val, b.val)]

FHEmul(a, b) == [id |-> << "mul", a.id, b.id >>, val |-> WrapMul(a.val, b.val)]

\* A division by a tenth of the divisor.
FHEdivTenth(a, d) ==
  [id |-> << "div", a.id, d >>, val |-> DivPlain(a.val, d \div 10)]

FHEdiv(a, d) == [id |-> << "div", a.id, d >>, val |-> DivPlain(a.val, d)]

\* FHE.allow / FHE.allowThis: one more (handle, principal) pair; none removed.
allow(grants, h, who) == grants \cup { << h.id, who >> }

isAllowed(h, who) == << h.id, who >> \in acl

----------------------------------------------------------------------------
(* Contract constants and storage                                          *)

PAYOUT_FULL == 10000

DELAY_ITERATIONS == 200

\* The basis-point divisor and the literals of evaluateClaim.
BasisPoints == 10000

RiskStep == 2500

\* A mapping slot never written: all fields zero.
EmptyClaim ==
  [lossAmount |-> NilHandle, riskLevel |-> NilHandle, payout |-> NilHandle,
   exists |-> FALSE]

\* The memory of an evaluateClaim call in progress.
NoFrame ==
  [caller |-> "", claimId |-> 0, riskLevelMinusOne |-> NilHandle,
   riskMultiplier |-> NilHandle, payoutPercent |-> NilHandle,
   payoutNumerator |-> NilHandle, calculatedPayout |-> NilHandle]

Outcome(op, id, status, ret) ==
  [op |-> op, id |-> id, status |-> status, ret |-> ret]

Init ==
  /\ claimCounter = 0
  /\ claims = [i \in ClaimIds |-> EmptyClaim]
  /\ acl = {}
  /\ pc = "idle"
  /\ frame = NoFrame
  /\ emitted = << >>
  /\ result = Outcome("constructor", << >>, "ok", << >>)

\* The views without a failure path.
getClaimCount == claimCounter

claimExists(id) == claims[id].exists

----------------------------------------------------------------------------
(* submitClaim                                                             *)

\* claimId = claimCounter; claimCounter++ , with the increment first.
AllocateIncrementFirst(counter) ==
  [claimId |-> counter + 1, claimCounter |-> counter + 1]

\* claimId = claimCounter, with the increment left out.
AllocateNoIncrement(counter) == [claimId |-> counter, claimCounter |-> counter]

\* claimId = claimCounter; claimCounter++
Allocate(counter) == [claimId |-> counter, claimCounter |-> counter + 1]

\* A new claim stored without its existence flag.
NewClaimUnflagged(encryptedLossAmount, encryptedRiskLevel) ==
  [lossAmount |-> encryptedLossAmount, riskLevel |-> encryptedRiskLevel,
   payout |-> asEuint32(0), exists |-> FALSE]

\* A new claim whose payout starts as its lossAmount.
NewClaimPayoutLoss(encryptedLossAmount, encryptedRiskLevel) ==
  [lossAmount |-> encryptedLossAmount, riskLevel |-> encryptedRiskLevel,
   payout |-> encryptedLossAmount, exists |-> TRUE]

\* The record submitClaim stores for a new claim.
NewClaim(encryptedLossAmount, encryptedRiskLevel) ==
  [lossAmount |-> encryptedLossAmount, riskLevel |-> encryptedRiskLevel,
   payout |-> asEuint32(0), exists |-> TRUE]

\* The grants of submitClaim without the submitter's grant on the risk level.
SubmitGrantsRiskThisOnly(grants, encryptedLossAmount, encryptedRiskLevel, sender) ==
  allow(allow(allow(grants, encryptedLossAmount, This),
              encryptedLossAmount, sender),
        encryptedRiskLevel, This)

\* The four grants of submitClaim.
SubmitGrants(grants, encryptedLossAmount, encryptedRiskLevel, sender) ==
  allow(allow(allow(allow(grants, encryptedLossAmount, This),
                    encryptedLossAmount, sender),
              encryptedRiskLevel, This),
        encryptedRiskLevel, sender)

ClaimSubmitted(claimId, claimant) == << "ClaimSubmitted", claimId, claimant >>

ClaimEvaluated(claimId) == << "ClaimEvaluated", claimId >>

\* A call that reverts: nothing it wrote is kept and nothing it emitted.
Revert(op, id, reason) ==
  /\ pc' = "idle"
  /\ frame' = NoFrame
  /\ emitted' = << >>
  /\ result' = Outcome(op, id, reason, << >>)
  /\ UNCHANGED << claimCounter, claims, acl >>

submitClaim(sender, lossAmountEuint32, riskLevelEuint32, inputProof) ==
  /\ pc = "idle"
  /\ IF ~Verifies(lossAmountEuint32, inputProof)
        \/ ~Verifies(riskLevelEuint32, inputProof)
     THEN Revert("submitClaim", << >>, "ProofVerificationFailure")
     ELSE LET encryptedLossAmount == fromExternal(lossAmountEuint32)
              encryptedRiskLevel == fromExternal(riskLevelEuint32)
              claimId == Allocate(claimCounter).claimId
          IN  /\ claimCounter' = Allocate(claimCounter).claimCounter
              /\ claims' = [claims EXCEPT ![claimId] =
                              NewClaim(encryptedLossAmount, encryptedRiskLevel)]
              /\ acl' = SubmitGrants(acl, encryptedLossAmount,
                                     encryptedRiskLevel, sender)
              /\ emitted' = << ClaimSubmitted(claimId, sender) >>
              /\ result' = Outcome("submitClaim", << >>, "ok", << claimId >>)
              /\ UNCHANGED << pc, frame >>

----------------------------------------------------------------------------
(* evaluateClaim, one action per statement; pc names the line to run next  *)

\* evaluateClaim entered without its require.
evaluateClaimUnchecked(sender, claimId) ==
  /\ pc = "idle"
  /\ pc' = "L148"
  /\ frame' = [NoFrame EXCEPT !.caller = sender, !.claimId = claimId]
  /\ emitted' = << >>
  /\ result' = Outcome("evaluateClaim", << claimId >>, "running", << >>)
  /\ UNCHANGED << claimCounter, claims, acl >>

\* require(claims[claimId].exists, "Claim does not exist")
evaluateClaim(sender, claimId) ==
  /\ pc = "idle"
  /\ IF ~claims[claimId].exists
     THEN Revert("evaluateClaim", << claimId >>, "NotFound")
     ELSE /\ pc' = "L148"
          /\ frame' = [NoFrame EXCEPT !.caller = sender, !.claimId = claimId]
          /\ emitted' = << >>
          /\ result' = Outcome("evaluateClaim", << claimId >>, "running", << >>)
          /\ UNCHANGED << claimCounter, claims, acl >>

\* The storage pointer `claim` of the call in progress.
claim == claims[frame.claimId]

Goto(label) ==
  /\ pc' = label
  /\ UNCHANGED << claimCounter, claims, acl, emitted, result >>

computeRiskLevelMinusOne ==
  /\ pc = "L148"
  /\ frame' = [frame EXCEPT
                 !.riskLevelMinusOne = FHEsub(claim.riskLevel, asEuint32(1))]
  /\ Goto("L149")

\* A loop of _addDelay whose body never runs.
DelayLoopNeverEntered(i, sum) == sum

\* The loop of _addDelay: sum := add(sum, i) for i below DELAY_ITERATIONS.
RECURSIVE DelayLoop(_, _)
DelayLoop(i, sum) ==
  IF i < DELAY_ITERATIONS THEN DelayLoop(i + 1, sum + i) ELSE sum

DelayFails == DelayLoop(0, 0) = 0 /\ DELAY_ITERATIONS > 0

AfterDelay ==
  [L149 |-> "L151", L152 |-> "L154", L155 |-> "L159", L160 |-> "L163"]

addDelay ==
  /\ pc \in DOMAIN AfterDelay
  /\ IF DelayFails
     THEN Revert("evaluateClaim", << frame.claimId >>, "DelayIntegrityFailure")
     ELSE /\ frame' = frame
          /\ Goto(AfterDelay[pc])

\* Line 151 followed at once by line 154, the delay of line 152 left out.
computeRiskMultiplierNoDelay ==
  /\ pc = "L151"
  /\ frame' = [frame EXCEPT
                 !.riskMultiplier =
                    FHEmul(frame.riskLevelMinusOne, asEuint32(RiskStep))]
  /\ Goto("L154")

computeRiskMultiplier ==
  /\ pc = "L151"
  /\ frame' = [frame EXCEPT
                 !.riskMultiplier =
                    FHEmul(frame.riskLevelMinusOne, asEuint32(RiskStep))]
  /\ Goto("L152")

computePayoutPercent ==
  /\ pc = "L154"
  /\ frame' = [frame EXCEPT
                 !.payoutPercent =
                    FHEsub(asEuint32(PAYOUT_FULL), frame.riskMultiplier)]
  /\ Goto("L155")

computePayoutNumerator ==
  /\ pc = "L159"
  /\ frame' = [frame EXCEPT
                 !.payoutNumerator =
                    FHEmul(claim.lossAmount, frame.payoutPercent)]
  /\ Goto("L160")

computeCalculatedPayout ==
  /\ pc = "L163"
  /\ frame' = [frame EXCEPT
                 !.calculatedPayout =
                    FHEdiv(frame.payoutNumerator, BasisPoints)]
  /\ Goto("L166")

\* The payout stored relative to the payout already there.
storePayoutDelta ==
  /\ pc = "L166"
  /\ claims' = [claims EXCEPT ![frame.claimId].payout =
                  FHEsub(frame.calculatedPayout, claim.payout)]
  /\ pc' = "L169"
  /\ UNCHANGED << claimCounter, acl, frame, emitted, result >>

\* The payout stored into the lossAmount field.
storePayoutIntoLoss ==
  /\ pc = "L166"
  /\ claims' = [claims EXCEPT ![frame.claimId].lossAmount =
                  frame.calculatedPayout]
  /\ pc' = "L169"
  /\ UNCHANGED << claimCounter, acl, frame, emitted, result >>

storePayout ==
  /\ pc = "L166"
  /\ claims' = [claims EXCEPT ![frame.claimId].payout = frame.calculatedPayout]
  /\ pc' = "L169"
  /\ UNCHANGED << claimCounter, acl, frame, emitted, result >>

allowThisPayout ==
  /\ pc = "L169"
  /\ acl' = allow(acl, frame.calculatedPayout, This)
  /\ pc' = "L172"
  /\ UNCHANGED << claimCounter, claims, frame, emitted, result >>

\* Line 172 without its grant.
allowSenderPayoutSkipped ==
  /\ pc = "L172"
  /\ pc' = "L174"
  /\ UNCHANGED << claimCounter, claims, acl, frame, emitted, result >>

allowSenderPayout ==
  /\ pc = "L172"
  /\ acl' = allow(acl, frame.calculatedPayout, frame.caller)
  /\ pc' = "L174"
  /\ UNCHANGED << claimCounter, claims, frame, emitted, result >>

emitClaimEvaluated ==
  /\ pc = "L174"
  /\ emitted' = Append(emitted, ClaimEvaluated(frame.claimId))
  /\ result' = Outcome("evaluateClaim", << frame.claimId >>, "ok", << >>)
  /\ pc' = "idle"
  /\ frame' = NoFrame
  /\ UNCHANGED << claimCounter, claims, acl >>

----------------------------------------------------------------------------
(* The views that can fail                                                 *)

\* A view without its require.
ViewUnchecked(op, claimId, ret) ==
  /\ pc = "idle"
  /\ result' = Outcome(op, << claimId >>, "ok", ret)
  /\ emitted' = << >>
  /\ UNCHANGED << claimCounter, claims, acl, pc, frame >>

View(op, claimId, ret) ==
  /\ pc = "idle"
  /\ IF ~claims[claimId].exists
     THEN Revert(op, << claimId >>, "NotFound")
     ELSE /\ result' = Outcome(op, << claimId >>, "ok", ret)
          /\ emitted' = << >>
          /\ UNCHANGED << claimCounter, claims, acl, pc, frame >>

getLossAmount(claimId) ==
  View("getLossAmount", claimId, << claims[claimId].lossAmount >>)

getRiskLevel(claimId) ==
  View("getRiskLevel", claimId, << claims[claimId].riskLevel >>)

getPayout(claimId) ==
  View("getPayout", claimId, << claims[claimId].payout >>)

getClaim(claimId) ==
  View("getClaim", claimId,
       << claims[claimId].lossAmount, claims[claimId].riskLevel,
          claims[claimId].payout >>)

----------------------------------------------------------------------------
(* Specifications                                                          *)

\* Every call a sender of `users` can make with amounts of `losses` and
\* levels of `risks`, the proof attesting any part of the two ciphertexts.
Submit(users, losses, risks) ==
  \E sender \in users, loss \in losses, risk \in risks :
    LET lossAmountEuint32 == External(sender, 0, loss)
        riskLevelEuint32 == External(sender, 1, risk)
    IN  \E inputProof \in SUBSET { lossAmountEuint32, riskLevelEuint32 } :
          submitClaim(sender, lossAmountEuint32, riskLevelEuint32, inputProof)

EvaluateSteps ==
  \/ computeRiskLevelMinusOne
  \/ addDelay
  \/ computeRiskMultiplier
  \/ computePayoutPercent
  \/ computePayoutNumerator
  \/ computeCalculatedPayout
  \/ storePayout
  \/ allowThisPayout
  \/ allowSenderPayout
  \/ emitClaimEvaluated

Next ==
  \/ claimCounter < MaxClaims /\ Submit(Users, LossAmounts, RiskLevels)
  \/ \E sender \in Users, claimId \in ClaimIds : evaluateClaim(sender, claimId)
  \/ EvaluateSteps
  \/ \E claimId \in ClaimIds : getLossAmount(claimId)
  \/ \E claimId \in ClaimIds : getRiskLevel(claimId)
  \/ \E claimId \in ClaimIds : getPayout(claimId)
  \/ \E claimId \in ClaimIds : getClaim(claimId)

\* The ledger: several submitters, every operation.
Spec == Init /\ [][Next]_vars

NextWide ==
  \/ claimCounter < WideMaxClaims
       /\ Submit(WideUsers, WideLossAmounts, WideRiskLevels)
  \/ \E sender \in WideUsers, claimId \in ClaimIds :
       evaluateClaim(sender, claimId)
  \/ EvaluateSteps

\* The payout pipeline over the wide plaintext domain.
SpecWide == Init /\ [][NextWide]_vars

----------------------------------------------------------------------------
(* Vocabulary of the properties                                            *)

\* The payout of claim id was stored by evaluateClaim: submitClaim stores the
\* trivial encryption of 0, evaluateClaim a handle it computed.
Evaluated(id) == claims[id].exists /\ claims[id].payout.id # asEuint32(0).id

\* a * b in full: all eight digits of the product, nothing lost.
FullMul(a, b) == MulCarry(a, b, 0, 2 * WordDigits, 0)

\* A word widened to eight digits.
Widen(a) == a \o << 0, 0, 0, 0 >>

\* floor(loss * percent / 10000) over the integers, as eight digits.
ExactShare(loss, percent) == DivPlain(FullMul(loss, U32(percent)), 10000)

\* Claim id was evaluated with risk level `risk` and its stored payout is
\* not floor(lossAmount * percent / 10000).
Diverges(id, risk, percent) ==
  /\ Evaluated(id)
  /\ claims[id].riskLevel.val = U32(risk)
  /\ Widen(claims[id].payout.val) # ExactShare(claims[id].lossAmount.val, percent)

----------------------------------------------------------------------------
(* Properties                                                              *)

\* C1: a successful submitClaim returns the value getClaimCount() had before
\* the call, and getClaimCount() is exactly one larger after it.
C1_SubmitReturnsPriorCount ==
  [][\A sender \in Users, loss \in LossAmounts, risk \in RiskLevels :
       LET lossExt == External(sender, 0, loss)
           riskExt == External(sender, 1, risk)
       IN  \A inputProof \in SUBSET { lossExt, riskExt } :
             (submitClaim(sender, lossExt, riskExt, inputProof)
                /\ result'.status = "ok")
             => /\ result'.ret = << getClaimCount >>
                /\ getClaimCount' = getClaimCount + 1]_vars

\* C1 witness: a submission has succeeded on a ledger that already held a
\* claim and returned id 1.
C1_Witness ==
  /\ result.op = "submitClaim"
  /\ result.status = "ok"
  /\ result.ret = << 1 >>
  /\ getClaimCount = 2

\* C2: in every state, claimExists(id) is true exactly for 0 <= id < count.
C2_ExistsIffBelowCount ==
  \A id \in ClaimIds : claimExists(id) <=> (0 <= id /\ id < getClaimCount)

\* C2 witness: a failed evaluateClaim after one successful submission and one
\* completed evaluation; id 0 exists and id 1 does not.
C2_Witness ==
  /\ result.op = "evaluateClaim"
  /\ result.status = "NotFound"
  /\ getClaimCount = 1
  /\ Evaluated(0)
  /\ claimExists(0)
  /\ ~claimExists(1)

\* C3 as stated: with riskLevel 1 the stored payout equals lossAmount, for
\* every lossAmount of the 32-bit domain.
C3_LowRiskPaysLoss ==
  \A id \in ClaimIds :
    (Evaluated(id) /\ claims[id].riskLevel.val = U32(1))
    => claims[id].payout.val = claims[id].lossAmount.val

\* C4 as stated: with riskLevel 2 the stored payout equals
\* floor(lossAmount * 7500 / 10000), for every lossAmount of the domain.
C4_MediumRiskPays75 == \A id \in ClaimIds : ~Diverges(id, 2, 7500)

\* C5 as stated: with riskLevel 3 the stored payout equals
\* floor(lossAmount * 5000 / 10000), for every lossAmount of the domain,
\* and lossAmount 500 yields 250.
C5_HighRiskPays50 ==
  \A id \in ClaimIds :
    /\ ~Diverges(id, 3, 5000)
    /\ (Evaluated(id) /\ claims[id].riskLevel.val = U32(3)
          /\ claims[id].lossAmount.val = U32(500))
       => claims[id].payout.val = U32(250)

\* C6 as stated: on an empty ledger submitClaim(1,000,000,000, 2) returns
\* claimId 0 and evaluateClaim(0) then stores the payout 750,000,000.
C6_ScenarioBillion ==
  (/\ claimExists(0)
   /\ claims[0].lossAmount.val = U32(1000000000)
   /\ claims[0].riskLevel.val = U32(2))
  => /\ (result.op = "submitClaim" /\ result.status = "ok" /\ getClaimCount = 1)
          => result.ret = << 0 >>
     /\ Evaluated(0) => claims[0].payout.val = U32(750000000)

\* C7: once evaluateClaim has stored the payout of a claim, every later
\* evaluation of that claim stores the same payout value again.
C7_Deterministic ==
  [][\A id \in ClaimIds :
       (Evaluated(id) /\ Evaluated(id)')
       => claims'[id].payout.val = claims[id].payout.val]_vars

\* C7 witness: a second evaluation of claim 0, by another caller and after
\* another claim was submitted, has just stored its payout again.
C7_Witness ==
  /\ pc = "L169"
  /\ frame.claimId = 0
  /\ frame.caller = "bob"
  /\ getClaimCount = 2
  /\ claims[1].lossAmount # claims[0].lossAmount
  /\ isAllowed(claims[0].payout, "alice")

\* C8: evaluateClaim on an id at or beyond the counter fails with NotFound,
\* changes neither the counter nor any claim nor any grant, and emits nothing.
C8_EvaluateUnallocated ==
  [][\A sender \in Users, id \in ClaimIds :
       (id >= getClaimCount /\ evaluateClaim(sender, id))
       => /\ result'.status = "NotFound"
          /\ pc' = "idle"
          /\ emitted' = << >>
          /\ UNCHANGED << claimCounter, claims, acl >>]_vars

\* C8 witness: evaluateClaim(1) has failed on a ledger holding one evaluated
\* claim and its grants.
C8_Witness ==
  /\ result = Outcome("evaluateClaim", << 1 >>, "NotFound", << >>)
  /\ getClaimCount = 1
  /\ Evaluated(0)
  /\ acl # {}

\* C9: submitClaim with a proof that fails for the lossAmount or for the
\* riskLevel ciphertext fails with ProofVerificationFailure; the counter,
\* the claims and the grants are unchanged and nothing is emitted.
C9_SubmitBadProof ==
  [][\A sender \in Users, loss \in LossAmounts, risk \in RiskLevels :
       LET lossExt == External(sender, 0, loss)
           riskExt == External(sender, 1, risk)
       IN  \A inputProof \in SUBSET { lossExt, riskExt } :
             (submitClaim(sender, lossExt, riskExt, inputProof)
                /\ (lossExt \notin inputProof \/ riskExt \notin inputProof))
             => /\ result'.status = "ProofVerificationFailure"
                /\ result'.ret = << >>
                /\ emitted' = << >>
                /\ UNCHANGED << claimCounter, claims, acl >>]_vars

\* C9 witness: a submission has failed its verification on a ledger that
\* holds a claim.
C9_Witness ==
  /\ result = Outcome("submitClaim", << >>, "ProofVerificationFailure", << >>)
  /\ getClaimCount = 1
  /\ acl # {}

\* What a view of claim id must do: fail with NotFound exactly when the claim
\* does not exist, as for every id at or beyond the counter, and otherwise
\* return `ret`; in both cases the ledger is unchanged.
ViewContract(id, ret) ==
  /\ (result'.status = "NotFound") <=> ~claimExists(id)
  /\ id >= getClaimCount => result'.status = "NotFound"
  /\ claimExists(id) => (result'.status = "ok" /\ result'.ret = ret)
  /\ UNCHANGED << claimCounter, claims, acl >>

\* C10: getLossAmount, getRiskLevel, getPayout and getClaim fail with
\* NotFound exactly when the claim does not exist and otherwise return the
\* stored handles, without changing the ledger.
C10_Views ==
  [][\A id \in ClaimIds :
       /\ getLossAmount(id) => ViewContract(id, << claims[id].lossAmount >>)
       /\ getRiskLevel(id) => ViewContract(id, << claims[id].riskLevel >>)
       /\ getPayout(id) => ViewContract(id, << claims[id].payout >>)
       /\ getClaim(id)
            => ViewContract(id, << claims[id].lossAmount,
                                   claims[id].riskLevel,
                                   claims[id].payout >>)]_vars

\* C10 witness: getClaim has returned the three handles of an evaluated claim
\* while the id after it does not exist.
C10_Witness ==
  /\ result.op = "getClaim"
  /\ result.status = "ok"
  /\ result.id = << 0 >>
  /\ Evaluated(0)
  /\ result.ret = << claims[0].lossAmount, claims[0].riskLevel, claims[0].payout >>
  /\ ~claimExists(1)

\* C11: a claim that exists keeps its exists flag, its lossAmount and its
\* riskLevel in every step; a step changes an existing claim only by
\* evaluateClaim(id) overwriting the payout of claim id, and no other claim.
C11_OnlyPayoutOverwritten ==
  [][\A id \in ClaimIds :
       claimExists(id)
       => /\ claims'[id].exists
          /\ claims'[id].lossAmount = claims[id].lossAmount
          /\ claims'[id].riskLevel = claims[id].riskLevel
          /\ claims'[id] # claims[id]
             => /\ storePayout
                /\ frame.claimId = id
                /\ \A other \in ClaimIds \ { id } :
                     claims'[other] = claims[other]]_vars

\* C11 witness: with two claims in the ledger, evaluateClaim(0) has just
\* overwritten the payout of claim 0 and claim 1 still has its first payout.
C11_Witness ==
  /\ pc = "L169"
  /\ frame.claimId = 0
  /\ getClaimCount = 2
  /\ Evaluated(0)
  /\ ~Evaluated(1)

\* A step is a submitClaim call that succeeds.
SubmitSucceeds ==
  \E sender \in Users, loss \in LossAmounts, risk \in RiskLevels :
    LET lossExt == External(sender, 0, loss)
        riskExt == External(sender, 1, risk)
    IN  \E inputProof \in SUBSET { lossExt, riskExt } :
          /\ submitClaim(sender, lossExt, riskExt, inputProof)
          /\ result'.status = "ok"

\* C12: the counter grows by one in every successful submitClaim, on an id
\* that did not exist, and is unchanged in every other step; so it never
\* decreases, counts the successful submissions and issues no id twice.
C12_CounterCountsSubmissions ==
  [][/\ claimCounter' >= claimCounter
     /\ SubmitSucceeds
        => /\ claimCounter' = claimCounter + 1
           /\ ~claimExists(result'.ret[1])
           /\ \A id \in ClaimIds : claimExists(id) => id # result'.ret[1]
     /\ ~SubmitSucceeds => claimCounter' = claimCounter]_vars

\* C12 witness: after two successful submissions, a completed evaluation and
\* a failed evaluateClaim, the counter is 2.
C12_Witness ==
  /\ getClaimCount = 2
  /\ Evaluated(0)
  /\ result = Outcome("evaluateClaim", << 2 >>, "NotFound", << >>)

\* C13: a successful submitClaim by `sender` leaves the contract and `sender`
\* with a grant on the claim's lossAmount and riskLevel handles, and no step
\* removes a grant, so they hold these grants in every later state.
C13_SubmitGrantsKept ==
  [][/\ acl \subseteq acl'
     /\ \A sender \in Users, loss \in LossAmounts, risk \in RiskLevels :
          LET lossExt == External(sender, 0, loss)
              riskExt == External(sender, 1, risk)
          IN  \A inputProof \in SUBSET { lossExt, riskExt } :
                (submitClaim(sender, lossExt, riskExt, inputProof)
                   /\ result'.status = "ok")
                => LET id == result'.ret[1]
                   IN  { << claims'[id].lossAmount.id, This >>,
                         << claims'[id].lossAmount.id, sender >>,
                         << claims'[id].riskLevel.id, This >>,
                         << claims'[id].riskLevel.id, sender >> }
                       \subseteq acl']_vars

\* The principal whose ciphertexts claim id stores: its submitter.
Submitter(id) == claims[id].lossAmount.id[2]

\* C13 witness: after another submission and an evaluation by another caller
\* the submitter of claim 0 and the contract hold the four grants.
C13_Witness ==
  /\ getClaimCount = 2
  /\ result = Outcome("evaluateClaim", << 0 >>, "ok", << >>)
  /\ Submitter(0) = "alice"
  /\ Submitter(1) = "bob"
  /\ isAllowed(claims[0].payout, "bob")
  /\ isAllowed(claims[0].lossAmount, This)
  /\ isAllowed(claims[0].lossAmount, "alice")
  /\ isAllowed(claims[0].riskLevel, This)
  /\ isAllowed(claims[0].riskLevel, "alice")

\* The events of a log.
Events(log) == { log[i] : i \in DOMAIN log }

\* C14: a step emits ClaimEvaluated(id) only when the payout of claim id is
\* stored and granted to the contract and to the caller; and when
\* evaluateClaim(id) has succeeded, whoever called it, the event is emitted
\* and the contract and the caller hold a grant on the stored payout handle.
C14_GrantsBeforeEvent ==
  [][\A id \in ClaimIds :
       /\ (ClaimEvaluated(id) \in Events(emitted')
             /\ ClaimEvaluated(id) \notin Events(emitted))
          => /\ frame.claimId = id
             /\ claims[id].payout = frame.calculatedPayout
             /\ isAllowed(claims[id].payout, This)
             /\ isAllowed(claims[id].payout, frame.caller)
       /\ (result' = Outcome("evaluateClaim", << id >>, "ok", << >>)
             /\ result' # result)
          => /\ frame.claimId = id
             /\ frame.caller \in Users
             /\ ClaimEvaluated(id) \in Events(emitted')
             /\ << claims'[id].payout.id, This >> \in acl'
             /\ << claims'[id].payout.id, frame.caller >> \in acl']_vars

\* C14 witness: bob has evaluated alice's claim 0; the event is out and the
\* payout is granted to the contract and to bob.
C14_Witness ==
  /\ result = Outcome("evaluateClaim", << 0 >>, "ok", << >>)
  /\ emitted = << ClaimEvaluated(0) >>
  /\ Submitter(0) = "alice"
  /\ Evaluated(0)
  /\ isAllowed(claims[0].payout, This)
  /\ isAllowed(claims[0].payout, "bob")
  /\ ~isAllowed(claims[0].payout, "alice")

\* C15: submitClaim creates a claim with the encrypted zero as payout, and the
\* payout of a claim stops being the encrypted zero only in the step of
\* evaluateClaim(id) that stores the payout of that claim.
C15_ZeroUntilEvaluated ==
  [][\A id \in ClaimIds :
       /\ (~claimExists(id) /\ claims'[id].exists)
          => /\ claims'[id].payout = asEuint32(0)
             /\ claims'[id].payout.val = U32(0)
       /\ (claimExists(id) /\ claims[id].payout = asEuint32(0)
             /\ claims'[id].payout # asEuint32(0))
          => (storePayout /\ frame.claimId = id)]_vars

\* C15 witness: claim 1 was submitted and evaluated after claim 0 was
\* submitted, and the payout of claim 0 is still the encrypted zero.
C15_Witness ==
  /\ getClaimCount = 2
  /\ result = Outcome("evaluateClaim", << 1 >>, "ok", << >>)
  /\ Evaluated(1)
  /\ claimExists(0)
  /\ claims[0].payout = asEuint32(0)

\* C16 as stated: when evaluateClaim(id) has succeeded, the submitter of
\* claim id holds a grant on the stored payout handle, whoever called.
C16_SubmitterReadsPayout ==
  \A id \in ClaimIds :
    result = Outcome("evaluateClaim", << id >>, "ok", << >>)
    => isAllowed(claims[id].payout, Submitter(id))

\* The stated order of the payout pipeline: what runs at each position and
\* the position it leaves the call in.
StepLines ==
  << "L148", "L149", "L151", "L152", "L154", "L155", "L159", "L160", "L163",
     "L166" >>

StepKinds ==
  << "riskLevelMinusOne", "tick", "riskMultiplier", "tick", "payoutPercent",
     "tick", "payoutNumerator", "tick", "calculatedPayout" >>

Temps ==
  { "riskLevelMinusOne", "riskMultiplier", "payoutPercent", "payoutNumerator",
    "calculatedPayout" }

\* The step is a tick of _addDelay and nothing else, or it is the homomorphic
\* operation that computes the named value and nothing else.
Does(kind) ==
  IF kind = "tick"
  THEN addDelay /\ frame' = frame
  ELSE /\ ~addDelay
       /\ frame'[kind] # frame[kind]
       /\ \A other \in Temps \ { kind } : frame'[other] = frame[other]

\* C17: a call of evaluateClaim runs riskMinusOne, tick, riskMultiplier, tick,
\* payoutPercent, tick, payoutNumerator, tick and the division by the plain
\* 10000, in this order, each once: four ticks, one after each of the first
\* four homomorphic steps, and no tick or homomorphic step anywhere else.
C17_PipelineOrder ==
  [][/\ (pc = "idle" /\ pc' # "idle")
        => /\ pc' = StepLines[1]
           /\ \A value \in Temps : frame'[value] = NilHandle
     /\ \A k \in DOMAIN StepKinds :
          pc = StepLines[k] => (Does(StepKinds[k]) /\ pc' = StepLines[k + 1])
     /\ pc = "L163"
        => frame'.calculatedPayout.id = << "div", frame.payoutNumerator.id, 10000 >>
     /\ (\A k \in DOMAIN StepKinds : pc # StepLines[k])
        => /\ ~addDelay
           /\ \/ frame' = NoFrame
              \/ \A value \in Temps : frame'[value] = frame[value]]_vars

\* C17 witness: a call has run the whole pipeline and is about to store.
C17_Witness ==
  /\ pc = "L166"
  /\ \A value \in Temps : frame[value] # NilHandle
  /\ frame.calculatedPayout = FHEdiv(frame.payoutNumerator, 10000)

\* C18: the sum of _addDelay is not zero and no call ends in
\* DelayIntegrityFailure: evaluateClaim fails only with NotFound, on a claim
\* that does not exist; a call on an existing claim is in progress and able
\* to take its next step, or it has succeeded with its payout stored.
C18_EvaluateSucceeds ==
  /\ ~DelayFails
  /\ result.status # "DelayIntegrityFailure"
  /\ result.op = "evaluateClaim"
     => /\ result.status \in { "running", "ok", "NotFound" }
        /\ result.status = "NotFound" => ~claimExists(result.id[1])
        /\ result.status = "running" <=> pc # "idle"
        /\ result.status = "ok" => Evaluated(result.id[1])
  /\ pc # "idle"
     => /\ result = Outcome("evaluateClaim", << frame.claimId >>, "running", << >>)
        /\ claimExists(frame.claimId)
        /\ ENABLED EvaluateSteps

\* C18 witness: a claim with riskLevel 0 and the largest lossAmount, already
\* evaluated before, has passed the four ticks again and is about to store.
C18_Witness ==
  /\ pc = "L166"
  /\ frame.claimId = 0
  /\ claims[0].riskLevel.val = U32(0)
  /\ claims[0].lossAmount.val = U32Max
  /\ Evaluated(0)

RECURSIVE LeqFrom(_, _, _)
LeqFrom(a, b, k) ==
  IF k = 0 THEN TRUE
  ELSE IF a[k] # b[k] THEN a[k] < b[k] ELSE LeqFrom(a, b, k - 1)

\* a <= b for two words.
WordLeq(a, b) == LeqFrom(a, b, WordDigits)

\* C19: with riskLevel 1, 2 or 3 the payout stored by evaluateClaim is never
\* greater than lossAmount, the products taken modulo 2^32.
C19_PayoutAtMostLoss ==
  \A id \in ClaimIds :
    (Evaluated(id) /\ claims[id].riskLevel.val \in { U32(1), U32(2), U32(3) })
    => WordLeq(claims[id].payout.val, claims[id].lossAmount.val)

\* C19 witness: a product that wrapped: lossAmount 1,000,000,000 at
\* riskLevel 2 was evaluated to the payout 98,710.
C19_Witness ==
  /\ Evaluated(0)
  /\ claims[0].lossAmount.val = U32(1000000000)
  /\ claims[0].riskLevel.val = U32(2)
  /\ claims[0].payout.val = U32(98710)

====
